---- MODULE Spec2Model ----
(***************************************************************************)
(* The hooks of the Dealfu voice loop as state machines:                   *)
(*   useVoiceActivityDetection (src/unnamed/part_005): Spec, SpecWide      *)
(*     with engine errors and one more microphone session, SpecEmitted     *)
(*     over two utterances, and SpecSessions over two sessions;            *)
(*   useSpeechRecognition (src/unnamed/part_003): SpecRecognition, and     *)
(*     SpecRecognitionLive with timers that expire;                        *)
(*   useAudioPlayer (src/unnamed/part_004): SpecPlayer, SpecTeardown with  *)
(*     the unmount cleanup, and its Audio element variant                  *)
(*     (src/frontend/src/hooks/useAudioPlayer.ts): SpecAudioElement;       *)
(*   SimulationScreen (src/frontend/src/components/SimulationScreen.tsx)   *)
(*     over the voice-activity hook and the player: SpecSimulation, and    *)
(*     SpecSimulationLive with effects, decodes and playbacks that end;    *)
(*   isValidTranscript and shouldTriggerApiCall                            *)
(*     (src/frontend/middleware.ts): SpecValidation;                       *)
(*   ActionButton (src/unnamed/part_007) under the button state of the     *)
(*     click-to-talk screen: SpecButton.                                   *)
(*                                                                         *)
(* Time is in milliseconds, loudness in thousandths of the normalised      *)
(* level (0.015 is 15).  Text is a sequence of tokens: Space stands for a  *)
(* blank, a positive number n for the words of recognition result n.       *)
(* React state and refs are variables of the same name; a render and the   *)
(* effects it schedules are taken as one step with the update that caused  *)
(* them.                                                                   *)
(***************************************************************************)
EXTENDS Integers, Sequences, FiniteSets

\* ------------------------------------------------------------------ bounds
\* silenceThreshold is an option of the hook; the model sets it to
\* SilenceTicks sampling periods.
SilenceTicks == 2
\* Sampling stops once the clock has advanced MaxTicks periods.
MaxTicks == 4
\* Recognition results the transcription feed produces in one behaviour.
MaxResults == 2
\* Microphone sessions in one behaviour, those still awaiting getUserMedia
\* included.
MaxSessions == 1
\* Restart timers of useSpeechRecognition pending at one time.
MaxTimers == 2
\* play() calls of useAudioPlayer in one behaviour.
MaxPlays == 3
\* Chat requests SimulationScreen sends in one behaviour.
MaxTurns == 2
\* Characters of a transcript handed to isValidTranscript.
MaxLen == 4
\* Long-press timers of ActionButton in one behaviour.
MaxPresses == 2

\* --------------------------------------------------------------- constants
checkInterval == 50
speechThreshold == 15
silenceThreshold == SilenceTicks * checkInterval
\* A blank character, as appended after every finalized segment.
Space == 0
\* null in a ref that holds a handle.
NoId == 0
\* Delay of the setTimeout that restarts the recognition engine.
restartDelay == 100
\* useState<number>(50): the patience score a simulation starts with.
initialPatience == 50
\* "\t" in a transcript: white space, as Space is.
Tab == 9
\* What String.prototype.trim strips.
Whitespace == {Space, Tab}
\* null, as a transcript.
Null == [kind |-> "null"]
\* undefined, as a transcript.
Undefined == [kind |-> "undefined"]

\* Loudness levels a tick may sample: below, at and above speechThreshold.
Levels == {1, speechThreshold, 20}
\* setInterval may fire late: one or two periods between two ticks.
TickDelays == {checkInterval, 2 * checkInterval}
\* Date.now() when the component mounts; far from the epoch, so that
\* now - 0 is never shorter than the silence threshold.
MountTime == silenceThreshold
MaxTime == MountTime + MaxTicks * checkInterval

\* Stream, audio context and interval handles a behaviour can create.
Handles == 1..(MaxSessions + 1)

VARIABLES
  \* options / props
  isSupported,          \* useState isSupported, settled by the mount effect
  enabledRef,           \* enabledRef.current, kept equal to the enabled prop
  \* React state returned to the caller
  transcript, isListening, isSpeaking, error,
  \* refs
  finalTranscriptRef, interimTranscriptRef,
  lastSpeechTimeRef, isSpeakingRef, hasSpokenRef,
  streamRef, audioContextRef, analyserRef, checkIntervalRef,
  \* environment: clock, timers, media devices, recognition engine
  now,                  \* Date.now() as read by the last tick
  liveIntervals,        \* setInterval timers that were not cleared
  pendingStarts,        \* startListening calls awaiting getUserMedia
  sessions,             \* handles created so far (stream, context, interval)
  trackStops, contextCloses, intervalClears,   \* releases per handle
  recState,             \* recognition engine: "off", "on", "stopping"
  results,              \* event.results of the running recognition
  nextResult,           \* number of the next result the feed produces
  engineError,          \* error the engine reported and has not yet ended on
  restartTimers,        \* setTimeout restarts pending, each the time left
  \* observation
  events,               \* callbacks (and timer restarts) the last step invoked
  stopsInRow,           \* stopListening calls since the last other step (at most 2)
  phase,                \* utterance as heard by the sampler: none, loud, closed
  lastLoud,             \* time of the last above-threshold sample processed
  crossed,              \* a sample exceeded the threshold since start/event/suppression
  textAtClose,          \* trimmed accumulator when the silence window closed
  uttEvents,            \* onSpeechEnd arguments since the utterance became loud
  discarded,            \* result numbers in the accumulator when suppression was set
  stopped,              \* stopListening was called and startListening not since
  \* useSpeechRecognition
  shouldBeListeningRef, \* shouldBeListeningRef.current
  mounted,              \* the component is mounted
  stoppedSince,         \* observation: pending restart timers set before the last stop()
  \* useAudioPlayer
  isPlaying, sourceNodeRef, audioRef,
  sources,              \* what became of the payload of each play() call
  endedCalls,           \* observation: onEnded invocations for each play() call
  called,               \* observation: the function of the hook the last step called
  \* SimulationScreen
  patienceScore, gameStatus, isLoading, vadEnabled, hasStarted,
  inFlight,             \* current_patience of each chat request not yet settled
  turns,                \* chat requests sent so far
  gameStatusSeen,       \* the gameStatus the effect on [gameStatus] last ran for
  lastOutcome,          \* observation: how the last chat call settled
  \* isValidTranscript / shouldTriggerApiCall
  checked,              \* the transcript handed to the functions
  verdict,              \* what they returned for it
  \* ActionButton
  isMobile, isPressingRef, longPressTimerRef,
  pressTimers,          \* what became of each setTimeout of handlePressStart
  buttonCalls,          \* observation: the callbacks the last step invoked
  \* observation, under SpecEmitted and SpecSessions
  emitted,              \* result numbers that onSpeechEnd has carried
  earlier               \* result numbers delivered for a session that was stopped

progVars == <<isSupported, enabledRef, transcript, isListening, isSpeaking, error,
              finalTranscriptRef, interimTranscriptRef, lastSpeechTimeRef,
              isSpeakingRef, hasSpokenRef, streamRef, audioContextRef,
              analyserRef, checkIntervalRef>>
envVars == <<now, liveIntervals, pendingStarts, sessions, trackStops,
             contextCloses, intervalClears, recState, results, nextResult,
             engineError, restartTimers>>
obsVars == <<events, stopsInRow, phase, lastLoud, crossed, textAtClose, uttEvents,
             discarded, stopped>>
recognitionVars == <<shouldBeListeningRef, mounted, stoppedSince>>
playerVars == <<isPlaying, sourceNodeRef, audioRef, sources, endedCalls, called>>
screenVars == <<patienceScore, gameStatus, isLoading, vadEnabled, hasStarted,
                inFlight, turns, gameStatusSeen, lastOutcome>>
validationVars == <<checked, verdict>>
buttonVars == <<isMobile, isPressingRef, longPressTimerRef, pressTimers, buttonCalls>>
historyVars == <<emitted, earlier>>
appVars == <<screenVars, validationVars, buttonVars, historyVars>>
vars == <<progVars, envVars, obsVars, recognitionVars, playerVars, appVars>>

\* ------------------------------------------------------------------- text
RECURSIVE TrimLeft(_)
TrimLeft(s) ==
  IF s = <<>> THEN s
  ELSE IF Head(s) \in Whitespace THEN TrimLeft(Tail(s)) ELSE s

RECURSIVE TrimRight(_)
TrimRight(s) ==
  IF s = <<>> THEN s
  ELSE IF s[Len(s)] \in Whitespace THEN TrimRight(SubSeq(s, 1, Len(s) - 1)) ELSE s

\* String.prototype.trim
Trim(s) == TrimRight(TrimLeft(s))

\* result[0].transcript of one recognition result
Text(r) == IF r.blank THEN <<Space>> ELSE <<r.id>>

\* The result numbers whose words occur in a text.
Words(s) == {s[i] : i \in 1..Len(s)} \ {Space}

\* ----------------------------------------------------------- observation
NoEvents == <<>>
SpeechStart == [type |-> "start", text |-> <<>>]
SpeechEnd(t) == [type |-> "end", text |-> t]
EndFired(evs) == \E i \in 1..Len(evs) : evs[i].type = "end"
StartFired(evs) == \E i \in 1..Len(evs) : evs[i].type = "start"
EndTexts(evs) == IF EndFired(evs) THEN <<evs[1].text>> ELSE <<>>

\* No utterance is being heard: the sampler's view after a start, a stop or
\* a suppression.
ForgetUtterance ==
  /\ phase' = "none"
  /\ UNCHANGED lastLoud
  /\ crossed' = FALSE
  /\ textAtClose' = <<>>
  /\ uttEvents' = <<>>

KeepUtterance == UNCHANGED <<phase, lastLoud, crossed, textAtClose, uttEvents>>

\* ------------------------------------------------------------------- Init
InitOthers ==
  /\ isSupported \in BOOLEAN
  /\ enabledRef \in BOOLEAN
  /\ transcript = <<>>
  /\ isListening = FALSE
  /\ isSpeaking = FALSE
  /\ error = IF isSupported THEN "none" ELSE "unsupported"
  /\ finalTranscriptRef = <<>>
  /\ interimTranscriptRef = <<>>
  /\ lastSpeechTimeRef = 0
  /\ isSpeakingRef = FALSE
  /\ hasSpokenRef = FALSE
  /\ streamRef = NoId
  /\ audioContextRef = NoId
  /\ analyserRef = NoId
  /\ checkIntervalRef = NoId
  /\ now = MountTime
  /\ liveIntervals = {}
  /\ pendingStarts = 0
  /\ sessions = 0
  /\ trackStops = [i \in Handles |-> 0]
  /\ contextCloses = [i \in Handles |-> 0]
  /\ intervalClears = [i \in Handles |-> 0]
  /\ recState = "off"
  /\ results = <<>>
  /\ nextResult = 1
  /\ engineError = "none"
  /\ restartTimers = <<>>
  /\ events = NoEvents
  /\ stopsInRow = 0
  /\ phase = "none"
  /\ lastLoud = 0
  /\ crossed = FALSE
  /\ textAtClose = <<>>
  /\ uttEvents = <<>>
  /\ discarded = {}
  /\ stopped = FALSE
  /\ shouldBeListeningRef = FALSE
  /\ mounted = TRUE
  /\ stoppedSince = 0
  /\ isPlaying = FALSE
  /\ sourceNodeRef = NoId
  /\ audioRef = NoId
  /\ sources = [i \in 1..MaxPlays |-> "none"]
  /\ endedCalls = [i \in 1..MaxPlays |-> 0]
  /\ called = "none"
  /\ patienceScore = initialPatience
  /\ gameStatus = "playing"
  /\ isLoading = FALSE
  /\ vadEnabled = FALSE
  /\ hasStarted = FALSE
  /\ inFlight = <<>>
  /\ turns = 0
  /\ gameStatusSeen = "playing"
  /\ lastOutcome = "none"
  /\ verdict = <<>>
  /\ isMobile = FALSE
  /\ isPressingRef = FALSE
  /\ longPressTimerRef = NoId
  /\ pressTimers = [i \in 1..MaxPresses |-> "none"]
  /\ buttonCalls = <<>>
  /\ emitted = {}
  /\ earlier = {}

\* The state after construction; no transcript was handed to
\* isValidTranscript.
Init == InitOthers /\ checked = Null

\* ------------------------------------------------- useEffect on [enabled]
\* Whether the effect clears the partial transcript for this value of enabled.
ClearsOnEnabled(enabled) == ~enabled

\* The enabled prop changes to b; the effect stores it in enabledRef and,
\* when VAD is disabled, clears the accumulator and the transcript state.
SetEnabled(b) ==
  /\ b # enabledRef
  /\ enabledRef' = b
  /\ IF ClearsOnEnabled(b)
       THEN /\ finalTranscriptRef' = <<>>
            /\ interimTranscriptRef' = <<>>
            /\ transcript' = <<>>
       ELSE UNCHANGED <<finalTranscriptRef, interimTranscriptRef, transcript>>
  /\ UNCHANGED <<isSupported, isListening, isSpeaking, error, lastSpeechTimeRef,
                 isSpeakingRef, hasSpokenRef, streamRef, audioContextRef,
                 analyserRef, checkIntervalRef>>
  /\ UNCHANGED envVars
  /\ events' = NoEvents
  /\ stopsInRow' = 0
  /\ IF b THEN KeepUtterance /\ UNCHANGED discarded
          ELSE /\ ForgetUtterance
               /\ discarded' = discarded \cup
                    Words(finalTranscriptRef \o interimTranscriptRef)
  /\ UNCHANGED stopped
  /\ UNCHANGED <<recognitionVars, playerVars, appVars>>

\* ------------------------------------------------- recognition.onresult
\* The segments the handler appends to finalTranscriptRef for one event: every
\* final result at index i >= resultIndex, in index order, each followed by a
\* blank.
RECURSIVE FinalSegments_All(_, _, _)
FinalSegments_All(res, resultIndex, i) ==
  IF i > Len(res) THEN <<>>
  ELSE (IF res[i].final THEN Text(res[i]) \o <<Space>> ELSE <<>>)
       \o FinalSegments_All(res, resultIndex, i + 1)

RECURSIVE FinalSegments(_, _, _)
FinalSegments(res, resultIndex, i) ==
  IF i > Len(res) THEN <<>>
  ELSE (IF res[i].final /\ i >= resultIndex
          THEN Text(res[i]) \o <<Space>> ELSE <<>>)
       \o FinalSegments(res, resultIndex, i + 1)

CurrentInterim_Last(res, i) == IF i = 0 THEN <<>> ELSE Text(res[i])

\* currentInterim after the loop: the text of the last result that is not
\* final, the empty string when there is none.
RECURSIVE CurrentInterim(_, _)
CurrentInterim(res, i) ==
  IF i = 0 THEN <<>>
  ELSE IF ~res[i].final THEN Text(res[i]) ELSE CurrentInterim(res, i - 1)

\* The events the feed can deliver next, each <<event.results, event.resultIndex>>.
\* The engine confirms results in order, so the final results of event.results
\* come before its interim ones and final results never change.  One event
\* turns the first k interim results final, appends at most one new result
\* (interim, or final when no interim result is left before it), or delivers
\* an interim result again; resultIndex is the lowest index that changed.
InterimIndices == {i \in 1..Len(results) : ~results[i].final}

FirstInterim == Len(results) - Cardinality(InterimIndices) + 1

Finalized(k) ==
  [i \in 1..Len(results) |->
     IF i < FirstInterim + k THEN [results[i] EXCEPT !.final = TRUE]
     ELSE results[i]]

NewResults(k) ==
  IF nextResult <= MaxResults
    THEN {<<[id |-> nextResult, final |-> f, blank |-> b]>> :
            f \in {FALSE} \cup {k = Cardinality(InterimIndices)}, b \in BOOLEAN}
    ELSE {}

FeedEvents ==
  {<<Finalized(x[1]) \o x[2],
     IF x[1] > 0 THEN FirstInterim ELSE Len(results) + 1>> :
       x \in {y \in UNION {{k} \X (NewResults(k) \cup {<<>>}) :
                            k \in 0..Cardinality(InterimIndices)} :
                y[1] > 0 \/ y[2] # <<>>}}
  \cup {<<results, i>> : i \in InterimIndices}

OnResultBody(ev) ==
  /\ recState \in {"on", "stopping"}
  /\ engineError = "none"
  /\ results' = ev[1]
  /\ nextResult' = IF Len(ev[1]) > Len(results) THEN nextResult + 1 ELSE nextResult
  /\ finalTranscriptRef' = finalTranscriptRef \o FinalSegments(ev[1], ev[2], 1)
  /\ interimTranscriptRef' = CurrentInterim(ev[1], Len(ev[1]))
  /\ transcript' = Trim(finalTranscriptRef' \o interimTranscriptRef')
  /\ UNCHANGED <<isSupported, enabledRef, isListening, isSpeaking, error,
                 lastSpeechTimeRef, isSpeakingRef, hasSpokenRef, streamRef,
                 audioContextRef, analyserRef, checkIntervalRef>>
  /\ UNCHANGED <<now, liveIntervals, pendingStarts, sessions, trackStops,
                 contextCloses, intervalClears, recState>>
  /\ events' = NoEvents
  /\ stopsInRow' = 0
  /\ KeepUtterance
  /\ UNCHANGED discarded
  /\ UNCHANGED <<engineError, restartTimers, stopped>>
  /\ UNCHANGED <<recognitionVars, playerVars>>

OnResult(ev) == OnResultBody(ev) /\ UNCHANGED appVars

\* -------------------------------------------------- recognition.onerror
\* Errors the engine reports: two that the handlers ignore and one they do not.
ErrorKinds == {"no-speech", "aborted", "network"}

\* event.error === "no-speech" || event.error === "aborted"
IsIgnoredError(kind) == kind \in {"no-speech", "aborted"}

\* The engine reports an error; it delivers no result after it and ends next.
\* The handler returns at once for an ignored kind and stores the message
\* otherwise.
OnError(kind) ==
  /\ recState \in {"on", "stopping"}
  /\ engineError = "none"
  /\ engineError' = kind
  /\ error' = IF IsIgnoredError(kind) THEN error ELSE kind
  /\ UNCHANGED <<isSupported, enabledRef, transcript, isListening, isSpeaking,
                 finalTranscriptRef, interimTranscriptRef, lastSpeechTimeRef,
                 isSpeakingRef, hasSpokenRef, streamRef, audioContextRef,
                 analyserRef, checkIntervalRef>>
  /\ UNCHANGED <<now, liveIntervals, pendingStarts, sessions, trackStops,
                 contextCloses, intervalClears, recState, results, nextResult,
                 restartTimers>>
  /\ events' = NoEvents
  /\ stopsInRow' = 0
  /\ KeepUtterance
  /\ UNCHANGED <<discarded, stopped>>
  /\ UNCHANGED <<recognitionVars, playerVars, appVars>>

\* --------------------------------------------------- recognition.onend
\* isListening as the onend closure sees it: the handler is created by the
\* mount effect (dependency list []), when isListening is still false.
IsListeningAtMount == FALSE

\* The engine ends (after stop(), after an error, or on its own).  The handler
\* schedules a restart only if its isListening is true.
OnEnd ==
  /\ recState \in {"on", "stopping"}
  /\ recState' = "off"
  /\ engineError' = "none"
  /\ restartTimers' = IF IsListeningAtMount /\ enabledRef
                        THEN Append(restartTimers, restartDelay)
                        ELSE restartTimers
  /\ results' = <<>>
  /\ UNCHANGED progVars
  /\ UNCHANGED <<now, liveIntervals, pendingStarts, sessions, trackStops,
                 contextCloses, intervalClears, nextResult>>
  /\ events' = NoEvents
  /\ stopsInRow' = 0
  /\ KeepUtterance
  /\ UNCHANGED discarded
  /\ UNCHANGED stopped
  /\ UNCHANGED <<recognitionVars, playerVars, appVars>>

\* ----------------------------------------------------- checkAudioLevel
\* The tick skips processing: VAD is disabled.
SkipsProcessing_Never == FALSE
SkipsProcessing == ~enabledRef

IsSpeech_AtThreshold(level) == level >= speechThreshold
\* normalizedLevel > speechThreshold
IsSpeech(level) == level > speechThreshold

SilenceExceeded_Early(t) == hasSpokenRef
\* silenceDuration >= silenceThreshold && hasSpokenRef.current, at time t
SilenceExceeded(t) ==
  /\ t - lastSpeechTimeRef >= silenceThreshold
  /\ hasSpokenRef

\* (finalTranscriptRef.current + interimTranscriptRef.current).trim()
FinalText_NoInterim(final, interim) == Trim(final)
FinalText(final, interim) == Trim(final \o interim)

\* The refs and state a tick leaves alone whatever it does.
TickFrame ==
  UNCHANGED <<isSupported, enabledRef, isListening, error, streamRef,
              audioContextRef, analyserRef, checkIntervalRef>>

KeepTranscript == UNCHANGED <<finalTranscriptRef, interimTranscriptRef, transcript>>

\* checkAudioLevel, sampling `level` at time t (Date.now()).
CheckAudioLevel(level, t) ==
  /\ TickFrame
  /\ IF analyserRef = NoId
       THEN /\ UNCHANGED <<isSpeaking, isSpeakingRef, hasSpokenRef, lastSpeechTimeRef>>
            /\ KeepTranscript
            /\ events' = NoEvents
     ELSE IF SkipsProcessing
       THEN /\ isSpeakingRef' = FALSE
            /\ isSpeaking' = IF isSpeakingRef THEN FALSE ELSE isSpeaking
            /\ hasSpokenRef' = FALSE
            /\ lastSpeechTimeRef' = 0
            /\ KeepTranscript
            /\ events' = NoEvents
     ELSE IF IsSpeech(level)
       THEN /\ lastSpeechTimeRef' = t
            /\ KeepTranscript
            /\ IF ~isSpeakingRef
                 THEN /\ isSpeakingRef' = TRUE
                      /\ isSpeaking' = TRUE
                      /\ hasSpokenRef' = TRUE
                      /\ events' = IF ~hasSpokenRef THEN <<SpeechStart>> ELSE NoEvents
                 ELSE /\ UNCHANGED <<isSpeakingRef, isSpeaking, hasSpokenRef>>
                      /\ events' = NoEvents
     ELSE IF isSpeakingRef /\ SilenceExceeded(t)
       THEN /\ isSpeakingRef' = FALSE
            /\ isSpeaking' = FALSE
            /\ UNCHANGED lastSpeechTimeRef
            /\ IF Len(FinalText(finalTranscriptRef, interimTranscriptRef)) > 0
                 THEN /\ events' = <<SpeechEnd(FinalText(finalTranscriptRef,
                                                         interimTranscriptRef))>>
                      /\ finalTranscriptRef' = <<>>
                      /\ interimTranscriptRef' = <<>>
                      /\ transcript' = <<>>
                      /\ hasSpokenRef' = FALSE
                 ELSE /\ events' = NoEvents
                      /\ KeepTranscript
                      /\ UNCHANGED hasSpokenRef
     ELSE /\ UNCHANGED <<isSpeaking, isSpeakingRef, hasSpokenRef, lastSpeechTimeRef>>
          /\ KeepTranscript
          /\ events' = NoEvents

\* What the sampler heard, from the samples alone: an utterance becomes loud
\* with a processed sample above the threshold and closes with the first
\* processed sample taken silenceThreshold or more after the last loud one.
Processed == analyserRef # NoId /\ enabledRef
Closes(level, t) ==
  /\ phase = "loud"
  /\ level <= speechThreshold
  /\ t - lastLoud >= silenceThreshold

Hear(level, t) ==
  IF ~Processed THEN KeepUtterance
  ELSE IF level > speechThreshold
    THEN /\ phase' = "loud"
         /\ lastLoud' = t
         /\ crossed' = TRUE
         /\ textAtClose' = <<>>
         /\ uttEvents' = IF phase = "loud" THEN uttEvents ELSE <<>>
    ELSE /\ phase' = IF Closes(level, t) THEN "closed" ELSE phase
         /\ UNCHANGED lastLoud
         /\ crossed' = (crossed /\ ~EndFired(events'))
         /\ textAtClose' = IF Closes(level, t)
                             THEN Trim(finalTranscriptRef \o interimTranscriptRef)
                             ELSE textAtClose
         /\ uttEvents' = IF phase = "none" \/ Len(uttEvents) >= 2 THEN uttEvents
                         ELSE uttEvents \o EndTexts(events')

\* One firing of a sampling interval that was not cleared, no later than
\* `limit`.
TickWithin(level, dt, limit) ==
  /\ liveIntervals # {}
  /\ now + dt <= limit
  /\ now' = now + dt
  /\ CheckAudioLevel(level, now + dt)
  /\ Hear(level, now + dt)
  /\ UNCHANGED <<liveIntervals, pendingStarts, sessions, trackStops,
                 contextCloses, intervalClears, recState, results, nextResult>>
  /\ stopsInRow' = 0
  /\ UNCHANGED discarded
  /\ UNCHANGED <<engineError, restartTimers, stopped>>
  /\ UNCHANGED <<recognitionVars, playerVars>>

Tick(level, dt) == TickWithin(level, dt, MaxTime) /\ UNCHANGED appVars

\* ------------------------------------------------------- startListening
\* if (!isSupported || isListening) return;
StartReturnsEarly == ~isSupported \/ isListening

\* finalTranscriptRef.current = "" in startListening
AccumulatorAtStart_Kept == finalTranscriptRef
AccumulatorAtStart == <<>>

\* startListening up to its await: the early return, or the reset of the
\* error, the accumulator and the VAD refs followed by the getUserMedia
\* request.
StartRequest(limit) ==
  /\ IF StartReturnsEarly
       THEN /\ UNCHANGED progVars
            /\ UNCHANGED pendingStarts
            /\ KeepUtterance
       ELSE /\ sessions + pendingStarts < limit
            /\ error' = "none"
            /\ finalTranscriptRef' = AccumulatorAtStart
            /\ interimTranscriptRef' = <<>>
            /\ transcript' = <<>>
            /\ hasSpokenRef' = FALSE
            /\ isSpeakingRef' = FALSE
            /\ pendingStarts' = pendingStarts + 1
            /\ UNCHANGED <<isSupported, enabledRef, isListening, isSpeaking,
                           lastSpeechTimeRef, streamRef, audioContextRef,
                           analyserRef, checkIntervalRef>>
            /\ ForgetUtterance
  /\ UNCHANGED <<now, liveIntervals, sessions, trackStops, contextCloses,
                 intervalClears, recState, results, nextResult>>
  /\ events' = NoEvents
  /\ stopsInRow' = 0
  /\ UNCHANGED discarded
  /\ UNCHANGED <<engineError, restartTimers>>
  /\ stopped' = FALSE
  /\ UNCHANGED <<recognitionVars, playerVars>>

StartListening == StartRequest(MaxSessions) /\ UNCHANGED appVars

\* recognitionRef.current?.start() inside try/catch: starts an engine that is
\* off; on a running (or stopping) engine start() throws and is ignored.
RecognitionStarted == IF recState = "off" THEN "on" ELSE recState

\* getUserMedia resolves: startListening continues after its await with a new
\* stream, audio context, analyser and sampling interval.
GetUserMediaResolve ==
  /\ pendingStarts > 0
  /\ pendingStarts' = pendingStarts - 1
  /\ sessions' = sessions + 1
  /\ streamRef' = sessions + 1
  /\ audioContextRef' = sessions + 1
  /\ analyserRef' = sessions + 1
  /\ recState' = RecognitionStarted
  /\ results' = IF recState = "off" THEN <<>> ELSE results
  /\ isListening' = TRUE
  /\ checkIntervalRef' = sessions + 1
  /\ liveIntervals' = liveIntervals \cup {sessions + 1}
  /\ UNCHANGED <<isSupported, enabledRef, transcript, isSpeaking, error,
                 finalTranscriptRef, interimTranscriptRef, lastSpeechTimeRef,
                 isSpeakingRef, hasSpokenRef>>
  /\ UNCHANGED <<now, trackStops, contextCloses, intervalClears, nextResult>>
  /\ events' = NoEvents
  /\ stopsInRow' = 0
  /\ KeepUtterance
  /\ UNCHANGED discarded
  /\ UNCHANGED <<engineError, restartTimers, stopped>>
  /\ UNCHANGED <<recognitionVars, playerVars, appVars>>

\* getUserMedia rejects: the catch block reports the error.
GetUserMediaReject ==
  /\ pendingStarts > 0
  /\ pendingStarts' = pendingStarts - 1
  /\ error' = "microphone"
  /\ UNCHANGED <<isSupported, enabledRef, transcript, isListening, isSpeaking,
                 finalTranscriptRef, interimTranscriptRef, lastSpeechTimeRef,
                 isSpeakingRef, hasSpokenRef, streamRef, audioContextRef,
                 analyserRef, checkIntervalRef>>
  /\ UNCHANGED <<now, liveIntervals, sessions, trackStops, contextCloses,
                 intervalClears, recState, results, nextResult>>
  /\ events' = NoEvents
  /\ stopsInRow' = 0
  /\ KeepUtterance
  /\ UNCHANGED discarded
  /\ UNCHANGED <<engineError, restartTimers, stopped>>
  /\ UNCHANGED <<recognitionVars, playerVars, appVars>>

\* -------------------------------------------------------- stopListening
\* The value stopListening leaves in a ref whose handle it has released.
Released_Kept(ref) == ref
Released(ref) == NoId

\* releases[ref] counted once more when the ref holds a handle.
Release(releases, ref) ==
  IF ref # NoId THEN [releases EXCEPT ![ref] = @ + 1] ELSE releases

\* recognitionRef.current?.stop() inside try/catch.
RecognitionStopped == IF isSupported /\ recState = "on" THEN "stopping" ELSE recState

StopListeningBody ==
  /\ isListening' = FALSE
  /\ isSpeaking' = FALSE
  /\ intervalClears' = Release(intervalClears, checkIntervalRef)
  /\ liveIntervals' = liveIntervals \ {checkIntervalRef}
  /\ checkIntervalRef' = Released(checkIntervalRef)
  /\ recState' = RecognitionStopped
  /\ trackStops' = Release(trackStops, streamRef)
  /\ streamRef' = Released(streamRef)
  /\ contextCloses' = Release(contextCloses, audioContextRef)
  /\ audioContextRef' = Released(audioContextRef)
  /\ analyserRef' = NoId
  /\ UNCHANGED <<isSupported, enabledRef, transcript, error, finalTranscriptRef,
                 interimTranscriptRef, lastSpeechTimeRef, isSpeakingRef,
                 hasSpokenRef>>
  /\ UNCHANGED <<now, pendingStarts, sessions, results, nextResult>>
  /\ events' = NoEvents
  /\ stopsInRow' = IF stopsInRow < 2 THEN stopsInRow + 1 ELSE 2
  /\ ForgetUtterance
  /\ UNCHANGED discarded
  /\ UNCHANGED <<engineError, restartTimers>>
  /\ stopped' = TRUE
  /\ UNCHANGED <<recognitionVars, playerVars>>

StopListening == StopListeningBody /\ UNCHANGED appVars

\* ------------------------------------------------------------------- Next
Next ==
  \/ \E b \in BOOLEAN : SetEnabled(b)
  \/ StartListening
  \/ GetUserMediaResolve
  \/ GetUserMediaReject
  \/ \E level \in Levels, dt \in TickDelays : Tick(level, dt)
  \/ \E ev \in FeedEvents : OnResult(ev)
  \/ OnEnd
  \/ StopListening

Spec == Init /\ [][Next]_vars

\* startListening with one more microphone session.
StartListeningWide == StartRequest(MaxSessions + 1) /\ UNCHANGED appVars

\* The hook with an engine that also reports errors and with one more
\* microphone session.
NextWide ==
  \/ \E b \in BOOLEAN : SetEnabled(b)
  \/ StartListeningWide
  \/ GetUserMediaResolve
  \/ GetUserMediaReject
  \/ \E level \in Levels, dt \in TickDelays : Tick(level, dt)
  \/ \E ev \in FeedEvents : OnResult(ev)
  \/ \E kind \in ErrorKinds : OnError(kind)
  \/ OnEnd
  \/ StopListening

SpecWide == Init /\ [][NextWide]_vars

\* ================================================= useSpeechRecognition
\* The hook of src/unnamed/part_003.  It declares state of the same names as
\* useVoiceActivityDetection (transcript, isListening, isSupported, error,
\* finalTranscriptRef, interimTranscriptRef) and drives the same recognition
\* engine; under SpecRecognition these variables are its state, and the
\* variables only the voice-activity hook has keep their initial values.
vadOnly == <<enabledRef, isSpeaking, lastSpeechTimeRef, isSpeakingRef, hasSpokenRef,
             streamRef, audioContextRef, analyserRef, checkIntervalRef,
             now, liveIntervals, pendingStarts, sessions, trackStops,
             contextCloses, intervalClears,
             stopsInRow, phase, lastLoud, crossed, textAtClose, uttEvents,
             discarded, stopped>>

InitRecognition == Init /\ enabledRef

\* Observation: the restart timer called recognitionRef.current.start().
RestartCall == [type |-> "restart", text |-> <<>>]

\* recognitionRef.current.start() returns normally only on an engine that is
\* off; on any other it throws InvalidStateError.
StartSucceeds == recState = "off"

\* start(): nothing without an engine; otherwise the transcript and the error
\* are reset, the intent is set and the engine is started.  When start()
\* throws, the catch block withdraws the intent.
SrStart ==
  /\ mounted
  /\ IF ~isSupported
       THEN UNCHANGED <<finalTranscriptRef, interimTranscriptRef, transcript,
                        error, shouldBeListeningRef, recState, results>>
       ELSE /\ finalTranscriptRef' = <<>>
            /\ interimTranscriptRef' = <<>>
            /\ transcript' = <<>>
            /\ error' = "none"
            /\ shouldBeListeningRef' = StartSucceeds
            /\ recState' = IF StartSucceeds THEN "starting" ELSE recState
            /\ results' = IF StartSucceeds THEN <<>> ELSE results
  /\ UNCHANGED <<isSupported, isListening, nextResult, engineError,
                 restartTimers, mounted, stoppedSince>>
  /\ events' = NoEvents
  /\ UNCHANGED <<vadOnly, playerVars, appVars>>

\* recognition.onstart
SrOnStart ==
  /\ recState = "starting"
  /\ recState' = "on"
  /\ isListening' = TRUE
  /\ UNCHANGED <<isSupported, transcript, error, finalTranscriptRef,
                 interimTranscriptRef, results, nextResult, engineError,
                 restartTimers, shouldBeListeningRef, mounted, stoppedSince>>
  /\ events' = NoEvents
  /\ UNCHANGED <<vadOnly, playerVars, appVars>>

\* recognition.onresult: the handler of part_003 is, comments aside, the text
\* of the one in part_005.
SrOnResult(ev) == OnResult(ev)

\* event.error === "no-speech" || event.error === "aborted"
SrIsIgnoredError_None(kind) == FALSE
SrIsIgnoredError(kind) == kind \in {"no-speech", "aborted"}

\* recognition.onerror: returns at once for an ignored kind; otherwise stores
\* the message, withdraws the intent and clears the listening flag.
SrOnError(kind) ==
  /\ recState \in {"starting", "on", "stopping", "aborting"}
  /\ engineError = "none"
  /\ engineError' = kind
  /\ IF SrIsIgnoredError(kind)
       THEN UNCHANGED <<error, shouldBeListeningRef, isListening>>
       ELSE /\ error' = kind
            /\ shouldBeListeningRef' = FALSE
            /\ isListening' = FALSE
  /\ UNCHANGED <<isSupported, transcript, finalTranscriptRef,
                 interimTranscriptRef, recState, results, nextResult,
                 restartTimers, mounted, stoppedSince>>
  /\ events' = NoEvents
  /\ UNCHANGED <<vadOnly, playerVars, appVars>>

\* if (shouldBeListeningRef.current) in onend
EndSchedulesRestart_Never == FALSE
EndSchedulesRestart == shouldBeListeningRef

\* recognition.onend: with the intent set a restart is scheduled restartDelay
\* from now; without it the listening flag is cleared.
SrOnEnd ==
  /\ recState # "off"
  /\ recState' = "off"
  /\ engineError' = "none"
  /\ results' = <<>>
  /\ IF EndSchedulesRestart
       THEN /\ Len(restartTimers) < MaxTimers
            /\ restartTimers' = Append(restartTimers, restartDelay)
            /\ UNCHANGED isListening
       ELSE /\ isListening' = FALSE
            /\ UNCHANGED restartTimers
  /\ UNCHANGED <<isSupported, transcript, error, finalTranscriptRef,
                 interimTranscriptRef, nextResult, shouldBeListeningRef,
                 mounted, stoppedSince>>
  /\ events' = NoEvents
  /\ UNCHANGED <<vadOnly, playerVars, appVars>>

\* Time left on a timer after restartDelay more milliseconds.
Left(t) == IF t > restartDelay THEN t - restartDelay ELSE 0

\* restartDelay milliseconds pass.
Elapse ==
  /\ \E i \in 1..Len(restartTimers) : restartTimers[i] > 0
  /\ restartTimers' = [i \in 1..Len(restartTimers) |-> Left(restartTimers[i])]
  /\ UNCHANGED <<isSupported, transcript, isListening, error, finalTranscriptRef,
                 interimTranscriptRef, recState, results, nextResult,
                 engineError, shouldBeListeningRef, mounted, stoppedSince>>
  /\ events' = NoEvents
  /\ UNCHANGED <<vadOnly, playerVars, appVars>>

\* if (shouldBeListeningRef.current && recognitionRef.current) in the timer
\* callback; a timer exists only when the engine does.
TimerRestarts == shouldBeListeningRef

\* The oldest restart timer expires.  With the intent set its callback calls
\* start(); when that throws, the intent is withdrawn and the listening flag
\* cleared.
SrRestart ==
  /\ restartTimers # <<>>
  /\ Head(restartTimers) = 0
  /\ restartTimers' = Tail(restartTimers)
  /\ stoppedSince' = IF stoppedSince > 0 THEN stoppedSince - 1 ELSE 0
  /\ IF TimerRestarts
       THEN /\ events' = <<RestartCall>>
            /\ IF StartSucceeds
                 THEN /\ recState' = "starting"
                      /\ results' = <<>>
                      /\ UNCHANGED <<shouldBeListeningRef, isListening>>
                 ELSE /\ shouldBeListeningRef' = FALSE
                      /\ isListening' = FALSE
                      /\ UNCHANGED <<recState, results>>
       ELSE /\ events' = NoEvents
            /\ UNCHANGED <<recState, results, shouldBeListeningRef, isListening>>
  /\ UNCHANGED <<isSupported, transcript, error, finalTranscriptRef,
                 interimTranscriptRef, nextResult, engineError, mounted>>
  /\ UNCHANGED <<vadOnly, playerVars, appVars>>

\* stop(): withdraws the intent and stops the engine, if there is one.
SrStop ==
  /\ mounted
  /\ shouldBeListeningRef' = FALSE
  /\ recState' = IF isSupported /\ recState \in {"starting", "on"}
                   THEN "stopping" ELSE recState
  /\ stoppedSince' = Len(restartTimers)
  /\ UNCHANGED <<isSupported, transcript, isListening, error, finalTranscriptRef,
                 interimTranscriptRef, results, nextResult, engineError,
                 restartTimers, mounted>>
  /\ events' = NoEvents
  /\ UNCHANGED <<vadOnly, playerVars, appVars>>

\* The cleanup of the mount effect: withdraws the intent and aborts the
\* engine.  The effect returns no cleanup when the engine is missing.
SrUnmount ==
  /\ mounted
  /\ mounted' = FALSE
  /\ shouldBeListeningRef' = IF isSupported THEN FALSE ELSE shouldBeListeningRef
  /\ recState' = IF isSupported /\ recState \in {"starting", "on", "stopping"}
                   THEN "aborting" ELSE recState
  /\ stoppedSince' = IF isSupported THEN Len(restartTimers) ELSE stoppedSince
  /\ UNCHANGED <<isSupported, transcript, isListening, error, finalTranscriptRef,
                 interimTranscriptRef, results, nextResult, engineError,
                 restartTimers>>
  /\ events' = NoEvents
  /\ UNCHANGED <<vadOnly, playerVars, appVars>>

NextRecognition ==
  \/ SrStart
  \/ SrOnStart
  \/ \E ev \in FeedEvents : SrOnResult(ev)
  \/ \E kind \in ErrorKinds : SrOnError(kind)
  \/ SrOnEnd
  \/ Elapse
  \/ SrRestart
  \/ SrStop
  \/ SrUnmount

SpecRecognition == InitRecognition /\ [][NextRecognition]_vars

\* Timers expire: time passes, and a timer that is due runs its callback.
SpecRecognitionLive ==
  /\ SpecRecognition
  /\ WF_vars(Elapse)
  /\ WF_vars(SrRestart)

\* ======================================================= useAudioPlayer
\* The hook of src/unnamed/part_004 (Web Audio) under SpecPlayer, and its
\* variant of src/frontend/src/hooks/useAudioPlayer.ts (an Audio element)
\* under SpecAudioElement.  Play call n creates source, or element, n.
notPlayer == <<isSupported, enabledRef, transcript, isListening, isSpeaking, error,
               finalTranscriptRef, interimTranscriptRef, lastSpeechTimeRef,
               isSpeakingRef, hasSpokenRef, streamRef, analyserRef,
               checkIntervalRef, envVars, obsVars, recognitionVars>>

InitPlayer == Init /\ isSupported /\ enabledRef

\* The play() calls made so far.
Calls == {i \in 1..MaxPlays : sources[i] # "none"}

\* The sources that were started and have neither ended nor been stopped.
Playing == {i \in 1..MaxPlays : sources[i] = "playing"}

\* onEndedRef.current() for play call id; the count stops at two.
Notified(id) ==
  [endedCalls EXCEPT ![id] = IF @ < 2 THEN @ + 1 ELSE @]

\* What play() may be given: base64 of audio data, or text atob() rejects.
Payloads == {"audio", "malformed"}

\* sourceNodeRef.current.stop() inside try/catch: stops a playing source; on
\* any other it throws and is ignored.
StopSource(id) ==
  IF id # NoId /\ sources[id] = "playing"
    THEN [sources EXCEPT ![id] = "stopped"]
    ELSE sources

\* The current source before play() goes on: play() stops it and clears the
\* ref.
StopsCurrent == StopSource(sourceNodeRef)

\* play() up to its await: the current source is stopped, the audio context
\* made, the payload decoded from base64 and handed to decodeAudioData.  When
\* atob() throws, the catch block reports the end.
\* new AudioContext() in getAudioContext: a handle that was never closed.
NewContext == 1 + Cardinality({h \in Handles : contextCloses[h] > 0})

PlayBody(payload) ==
  /\ Cardinality(Calls) < MaxPlays
  /\ sourceNodeRef' = NoId
  /\ audioContextRef' = IF audioContextRef = NoId THEN NewContext ELSE audioContextRef
  /\ IF payload = "malformed"
       THEN /\ sources' = [StopsCurrent EXCEPT ![Cardinality(Calls) + 1] = "failed"]
            /\ isPlaying' = FALSE
            /\ endedCalls' = Notified(Cardinality(Calls) + 1)
       ELSE /\ sources' = [StopsCurrent EXCEPT ![Cardinality(Calls) + 1] = "decoding"]
            /\ UNCHANGED <<isPlaying, endedCalls>>
  /\ called' = "play"
  /\ UNCHANGED <<audioRef, notPlayer>>

Play(payload) == PlayBody(payload) /\ UNCHANGED appVars

\* decodeAudioData resolves: play() goes on after its await with a new source,
\* which start(0) starts; when start throws, the catch block reports the end.
DecodedBody(id, starts) ==
  /\ sources[id] = "decoding"
  /\ sourceNodeRef' = id
  /\ IF starts
       THEN /\ sources' = [sources EXCEPT ![id] = "playing"]
            /\ isPlaying' = TRUE
            /\ UNCHANGED endedCalls
       ELSE /\ sources' = [sources EXCEPT ![id] = "unstarted"]
            /\ isPlaying' = FALSE
            /\ endedCalls' = Notified(id)
  /\ called' = "none"
  /\ UNCHANGED <<audioContextRef, audioRef, notPlayer>>

Decoded(id, starts) == DecodedBody(id, starts) /\ UNCHANGED appVars

\* decodeAudioData rejects: the catch block reports the end.
DecodeFailedBody(id) ==
  /\ sources[id] = "decoding"
  /\ sources' = [sources EXCEPT ![id] = "failed"]
  /\ isPlaying' = FALSE
  /\ endedCalls' = Notified(id)
  /\ called' = "none"
  /\ UNCHANGED <<sourceNodeRef, audioContextRef, audioRef, notPlayer>>

DecodeFailed(id) == DecodeFailedBody(id) /\ UNCHANGED appVars

\* source.onended: the ended event of a source that played to its end or was
\* stopped.
SourceEndedBody(id) ==
  /\ sources[id] \in {"playing", "stopped"}
  /\ sources' = [sources EXCEPT ![id] = "ended"]
  /\ isPlaying' = FALSE
  /\ sourceNodeRef' = NoId
  /\ endedCalls' = Notified(id)
  /\ called' = "none"
  /\ UNCHANGED <<audioContextRef, audioRef, notPlayer>>

SourceEnded(id) == SourceEndedBody(id) /\ UNCHANGED appVars

\* stop()
PlayerStop ==
  /\ IF sourceNodeRef # NoId
       THEN /\ sources' = StopSource(sourceNodeRef)
            /\ sourceNodeRef' = NoId
            /\ isPlaying' = FALSE
       ELSE UNCHANGED <<sources, sourceNodeRef, isPlaying>>
  /\ called' = "stop"
  /\ UNCHANGED <<endedCalls, audioContextRef, audioRef, notPlayer, appVars>>

NextPlayer ==
  \/ \E payload \in Payloads : Play(payload)
  \/ \E id \in 1..MaxPlays, starts \in BOOLEAN : Decoded(id, starts)
  \/ \E id \in 1..MaxPlays : DecodeFailed(id)
  \/ \E id \in 1..MaxPlays : SourceEnded(id)
  \/ PlayerStop

SpecPlayer == InitPlayer /\ [][NextPlayer]_vars

\* ------------------------------------------- the Audio element variant
\* An element is "loading" from play() until its play event, then "playing";
\* "ended" after its ended event.  A load that fails fires the error event
\* and then rejects the promise of play(): "failing" while both are due,
\* "rejecting" once onerror has run, "erroring" when only an error event is
\* due, "done" when nothing is.  The pause event of an element that is
\* replaced or stopped leaves isPlaying as the step that paused it set it.

\* audio.src = "" on element id: the load algorithm fails on the empty src,
\* which fires the error event and rejects a promise of play() still pending.
Emptied(id) ==
  IF id = NoId THEN sources
  ELSE [sources EXCEPT ![id] =
          IF @ \in {"loading", "rejecting", "failing"} THEN "failing" ELSE "erroring"]

\* play(): empties the current element, creates the next one with its
\* handlers and calls its play().
ElPlay ==
  /\ Cardinality(Calls) < MaxPlays
  /\ sources' = [Emptied(audioRef) EXCEPT ![Cardinality(Calls) + 1] = "loading"]
  /\ audioRef' = Cardinality(Calls) + 1
  /\ called' = "play"
  /\ UNCHANGED <<isPlaying, endedCalls, sourceNodeRef, audioContextRef, notPlayer, appVars>>

\* audio.onplay
ElOnPlay(id) ==
  /\ sources[id] = "loading"
  /\ sources' = [sources EXCEPT ![id] = "playing"]
  /\ isPlaying' = TRUE
  /\ called' = "none"
  /\ UNCHANGED <<endedCalls, audioRef, sourceNodeRef, audioContextRef, notPlayer, appVars>>

\* audio.onended
ElOnEnded(id) ==
  /\ sources[id] = "playing"
  /\ sources' = [sources EXCEPT ![id] = "ended"]
  /\ isPlaying' = FALSE
  /\ endedCalls' = Notified(id)
  /\ called' = "none"
  /\ UNCHANGED <<audioRef, sourceNodeRef, audioContextRef, notPlayer, appVars>>

\* audio.onerror: the data cannot be loaded or decoded, or the src was emptied.
ElOnError(id) ==
  /\ sources[id] \in {"loading", "failing", "erroring", "playing"}
  /\ sources' = [sources EXCEPT ![id] =
                   IF @ \in {"loading", "failing"} THEN "rejecting" ELSE "done"]
  /\ isPlaying' = FALSE
  /\ endedCalls' = Notified(id)
  /\ called' = "none"
  /\ UNCHANGED <<audioRef, sourceNodeRef, audioContextRef, notPlayer, appVars>>

\* audio.play().catch: the promise is rejected after a failed load, or at
\* once when the browser refuses to start playback.
ElPlayRejected(id) ==
  /\ sources[id] \in {"loading", "rejecting"}
  /\ sources' = [sources EXCEPT ![id] = "done"]
  /\ isPlaying' = FALSE
  /\ endedCalls' = Notified(id)
  /\ called' = "none"
  /\ UNCHANGED <<audioRef, sourceNodeRef, audioContextRef, notPlayer, appVars>>

\* stop(): pauses, rewinds and empties the current element.
ElStop ==
  /\ IF audioRef # NoId
       THEN /\ sources' = Emptied(audioRef)
            /\ isPlaying' = FALSE
       ELSE UNCHANGED <<sources, isPlaying>>
  /\ called' = "stop"
  /\ UNCHANGED <<endedCalls, audioRef, sourceNodeRef, audioContextRef, notPlayer, appVars>>

NextAudioElement ==
  \/ ElPlay
  \/ \E id \in 1..MaxPlays : ElOnPlay(id)
  \/ \E id \in 1..MaxPlays : ElOnEnded(id)
  \/ \E id \in 1..MaxPlays : ElOnError(id)
  \/ \E id \in 1..MaxPlays : ElPlayRejected(id)
  \/ ElStop

SpecAudioElement == InitPlayer /\ [][NextAudioElement]_vars

\* ===================================================== SimulationScreen
\* The screen of src/frontend/src/components/SimulationScreen.tsx over
\* useVoiceActivityDetection and useAudioPlayer (src/unnamed/part_004).  The
\* samples and the transcription feed are inputs under SpecSimulation: a tick
\* that finds the silence window closed on a text is a step of the
\* environment.  State updates made in one handler are rendered together;
\* the effects of that render run before any other event is handled.
InitSimulation == Init /\ ~enabledRef

Enabled_IgnoringStatus == vadEnabled /\ ~isPlaying /\ ~isLoading
\* enabled: vadEnabled && !isPlaying && !isLoading && gameStatus === "playing"
Enabled == vadEnabled /\ ~isPlaying /\ ~isLoading /\ gameStatus = "playing"

\* No effect is due: enabledRef holds the enabled of the last render, and the
\* effect on [gameStatus] has run for the present status.
EffectsDone == enabledRef = Enabled /\ gameStatusSeen = gameStatus

\* The effect of the hook on [enabled], after a render that changed enabled.
EnabledEffect ==
  /\ enabledRef # Enabled
  /\ SetEnabled(Enabled)

\* The effect on [gameStatus]: when the game is over it suppresses the hook
\* and stops listening.
GameEndEffect ==
  /\ gameStatusSeen # gameStatus
  /\ gameStatusSeen' = gameStatus
  /\ IF gameStatus # "playing"
       THEN /\ vadEnabled' = FALSE
            /\ StopListeningBody
       ELSE /\ UNCHANGED vadEnabled
            /\ UNCHANGED <<progVars, envVars, obsVars, recognitionVars, playerVars>>
  /\ UNCHANGED <<patienceScore, gameStatus, isLoading, hasStarted, inFlight,
                 turns, lastOutcome>>
  /\ UNCHANGED <<validationVars, buttonVars, historyVars>>

\* handleStartSimulation: the Start Simulation button, shown until the
\* simulation has started and disabled without speech recognition.
HandleStartSimulation ==
  /\ EffectsDone
  /\ ~hasStarted
  /\ isSupported
  /\ hasStarted' = TRUE
  /\ vadEnabled' = TRUE
  /\ StartRequest(MaxSessions)
  /\ UNCHANGED <<patienceScore, gameStatus, isLoading, inFlight, turns,
                 gameStatusSeen, lastOutcome>>
  /\ UNCHANGED <<validationVars, buttonVars, historyVars>>

\* setVadEnabled(false) in handleSpeechEnd
VadWhileProcessing_Kept == vadEnabled
VadWhileProcessing == FALSE

\* finalTranscript.trim().length > 0 && sendMessageRef.current
SendsMessage(text) == Len(Trim(text)) > 0

\* The texts a finalization hands to onSpeechEnd: trimmed and not empty.
FinalTexts == {<<1>>, <<1, Space, 2>>}

\* A tick of the hook finds the silence window closed on `text`: it returns
\* to idle, clears the accumulator and calls onSpeechEnd.  handleSpeechEnd
\* suppresses the hook and calls sendMessage, which sets isLoading and sends
\* the request with the present score.
SpeechEndTick(text) ==
  /\ EffectsDone
  /\ liveIntervals # {}
  /\ analyserRef # NoId
  /\ enabledRef
  /\ turns < MaxTurns
  /\ isSpeakingRef' = FALSE
  /\ isSpeaking' = FALSE
  /\ finalTranscriptRef' = <<>>
  /\ interimTranscriptRef' = <<>>
  /\ transcript' = <<>>
  /\ hasSpokenRef' = FALSE
  /\ events' = <<SpeechEnd(text)>>
  /\ stopsInRow' = 0
  /\ UNCHANGED <<isSupported, enabledRef, isListening, error, lastSpeechTimeRef,
                 streamRef, audioContextRef, analyserRef, checkIntervalRef>>
  /\ UNCHANGED <<envVars, phase, lastLoud, crossed, textAtClose, uttEvents,
                 discarded, stopped, recognitionVars, playerVars>>
  /\ IF SendsMessage(text)
       THEN /\ vadEnabled' = VadWhileProcessing
            /\ isLoading' = TRUE
            /\ inFlight' = Append(inFlight, patienceScore)
            /\ turns' = turns + 1
       ELSE UNCHANGED <<vadEnabled, isLoading, inFlight, turns>>
  /\ UNCHANGED <<patienceScore, gameStatus, hasStarted, gameStatusSeen, lastOutcome>>
  /\ UNCHANGED <<validationVars, buttonVars, historyVars>>

\* if (data.deal_closed) setGameStatus("won")
DealClosed(status, deal) == IF deal THEN "won" ELSE status

\* The effect on [patienceScore, gameStatus], for the status and the score of
\* the render it follows.
WinLoss_Strict(status, score) ==
  IF status # "playing" THEN status
  ELSE IF score < 0 THEN "lost"
  ELSE IF score > 100 THEN "won"
  ELSE status
WinLoss(status, score) ==
  IF status # "playing" THEN status
  ELSE IF score <= 0 THEN "lost"
  ELSE IF score >= 100 THEN "won"
  ELSE status

\* handleAudioEnded, for every onEnded the player invokes in the step.
VadAfterAudioEnded_Kept == vadEnabled
VadAfterAudioEnded == TRUE

HandleAudioEnded ==
  vadEnabled' = IF endedCalls' # endedCalls THEN VadAfterAudioEnded ELSE vadEnabled

\* finally { setIsLoading(false) }
LoadingAfterSettle_Kept == isLoading
LoadingAfterSettle == FALSE

\* patience_score and audio_base64 of a response: the score is 0..100, the
\* audio is missing (an empty string), base64 of audio data, or text that
\* atob() rejects.
Scores == {0, 35, 100}
Audio == {"none", "audio", "malformed"}

\* The chat call resolves with a response that parses: sendMessage stores the
\* score, closes the deal, plays the audio or lifts the suppression, and
\* clears isLoading; the win/loss effect follows the render.
ChatResponds(score, deal, audio) ==
  /\ EffectsDone
  /\ inFlight # <<>>
  /\ inFlight' = Tail(inFlight)
  /\ patienceScore' = score
  /\ gameStatus' = WinLoss(DealClosed(gameStatus, deal), score)
  /\ lastOutcome' = IF deal THEN "closed" ELSE "open"
  /\ IF audio # "none"
       THEN /\ PlayBody(audio)
            /\ HandleAudioEnded
       ELSE /\ vadEnabled' = TRUE
            /\ UNCHANGED <<progVars, envVars, obsVars, recognitionVars, playerVars>>
  /\ isLoading' = LoadingAfterSettle
  /\ UNCHANGED <<hasStarted, turns, gameStatusSeen>>
  /\ UNCHANGED <<validationVars, buttonVars, historyVars>>

\* The ways a chat call fails: fetch rejects, the status is not OK, or the
\* body does not parse.
Failures == {"network", "status", "body"}

\* The chat call fails: the catch block lifts the suppression and the finally
\* block clears isLoading.
ChatFails(kind) ==
  /\ EffectsDone
  /\ inFlight # <<>>
  /\ inFlight' = Tail(inFlight)
  /\ lastOutcome' = kind
  /\ vadEnabled' = TRUE
  /\ isLoading' = LoadingAfterSettle
  /\ UNCHANGED <<patienceScore, gameStatus, hasStarted, turns, gameStatusSeen>>
  /\ UNCHANGED <<progVars, envVars, obsVars, recognitionVars, playerVars>>
  /\ UNCHANGED <<validationVars, buttonVars, historyVars>>

\* What the player's events leave alone on the screen.
ScreenFrame ==
  /\ UNCHANGED <<patienceScore, gameStatus, isLoading, hasStarted, inFlight,
                 turns, gameStatusSeen, lastOutcome>>
  /\ UNCHANGED <<validationVars, buttonVars, historyVars>>

\* decodeAudioData resolves or rejects, under the screen.
DecodeSettles(id) ==
  /\ EffectsDone
  /\ \/ \E starts \in BOOLEAN : DecodedBody(id, starts)
     \/ DecodeFailedBody(id)
  /\ HandleAudioEnded
  /\ ScreenFrame

\* source.onended, under the screen.
PlaybackEnds(id) ==
  /\ EffectsDone
  /\ SourceEndedBody(id)
  /\ HandleAudioEnded
  /\ ScreenFrame

NextSimulation ==
  \/ EnabledEffect
  \/ GameEndEffect
  \/ HandleStartSimulation
  \/ EffectsDone /\ GetUserMediaResolve
  \/ EffectsDone /\ GetUserMediaReject
  \/ \E text \in FinalTexts : SpeechEndTick(text)
  \/ \E score \in Scores, deal \in BOOLEAN, audio \in Audio :
       ChatResponds(score, deal, audio)
  \/ \E kind \in Failures : ChatFails(kind)
  \/ \E id \in 1..MaxPlays : DecodeSettles(id)
  \/ \E id \in 1..MaxPlays : PlaybackEnds(id)

SpecSimulation == InitSimulation /\ [][NextSimulation]_vars

\* Effects run, a decode settles and a playback ends; a chat call may stay
\* pending for ever.
SpecSimulationLive ==
  /\ SpecSimulation
  /\ WF_vars(EnabledEffect)
  /\ WF_vars(GameEndEffect)
  /\ WF_vars(\E id \in 1..MaxPlays : DecodeSettles(id))
  /\ WF_vars(\E id \in 1..MaxPlays : PlaybackEnds(id))

\* ============================== isValidTranscript, shouldTriggerApiCall
\* The functions of src/frontend/middleware.ts under SpecValidation.  A
\* transcript is null, undefined or a string; a string is a sequence of
\* tokens, of which Space and Tab are white space.

\* A string, as a transcript.
Str(s) == [kind |-> "string", text |-> s]

\* Characters of the transcripts handed to the functions.
Chars == {Space, Tab, 1}

RECURSIVE StringsUpTo(_)
StringsUpTo(n) ==
  IF n = 0 THEN {<<>>}
  ELSE LET shorter == StringsUpTo(n - 1)
       IN shorter \cup {Append(s, c) : s \in shorter, c \in Chars}

\* string | null | undefined
Transcripts == {Null, Undefined} \cup {Str(s) : s \in StringsUpTo(MaxLen)}

isValidTranscript_Untrimmed(t) ==
  IF t = Null \/ t = Undefined THEN FALSE ELSE Len(t.text) > 0

isValidTranscript(t) ==
  IF t = Null \/ t = Undefined THEN FALSE ELSE Len(Trim(t.text)) > 0

shouldTriggerApiCall(t) == isValidTranscript(t)

InitValidation == InitOthers /\ checked \in Transcripts

\* Both functions are applied to the transcript.
Validate ==
  /\ verdict = <<>>
  /\ verdict' = <<isValidTranscript(checked), shouldTriggerApiCall(checked)>>
  /\ UNCHANGED <<progVars, envVars, obsVars, recognitionVars, playerVars,
                 screenVars, checked, buttonVars, historyVars>>

NextValidation == Validate

SpecValidation == InitValidation /\ [][NextValidation]_vars

\* ========================================================= ActionButton
\* The button of src/unnamed/part_007 under the click-to-talk screen of
\* src/frontend/src/components/ActionButton.test.tsx (lines 266-635), which
\* derives the button's state from isPlaying, isLoading, gameStatus and
\* isListening.  What the screen reads from useSpeechRecognition and
\* useAudioPlayer (isListening, isPlaying) and what the button reads from
\* useIsMobile are inputs here: a render may find them changed.  onRecordStart
\* and onRecordStop are the optional props of the button; they are passed, and
\* a call of them is observed in buttonCalls and changes nothing else.

\* What SpecButton leaves alone.
buttonFrame == <<isSupported, enabledRef, transcript, isSpeaking, error,
                 finalTranscriptRef, interimTranscriptRef, lastSpeechTimeRef,
                 isSpeakingRef, hasSpokenRef, streamRef, audioContextRef,
                 analyserRef, checkIntervalRef, envVars, obsVars,
                 recognitionVars, sourceNodeRef, audioRef, sources, endedCalls,
                 called, vadEnabled, hasStarted, gameStatusSeen, validationVars,
                 historyVars>>

InitButton == Init /\ isSupported /\ enabledRef

ButtonState_ListeningFirst ==
  IF isListening THEN "recording"
  ELSE IF isPlaying \/ isLoading \/ gameStatus # "playing" THEN "disabled"
  ELSE "idle"

\* const buttonState: ActionButtonState = (() => { ... })()
ButtonState ==
  IF isPlaying \/ isLoading \/ gameStatus # "playing" THEN "disabled"
  ELSE IF isListening THEN "recording"
  ELSE "idle"

\* const isDisabled = state === "disabled"
isDisabled == ButtonState = "disabled"
\* const isRecording = state === "recording"
isRecording == ButtonState = "recording"

\* useSpeechRecognition reports that the engine started or ended.
ListeningChanges ==
  /\ isListening' = ~isListening
  /\ buttonCalls' = <<>>
  /\ UNCHANGED <<isPlaying, screenVars, isMobile, isPressingRef,
                 longPressTimerRef, pressTimers, buttonFrame>>

\* useAudioPlayer reports that playback began or is over.
PlayingChanges ==
  /\ isPlaying' = ~isPlaying
  /\ buttonCalls' = <<>>
  /\ UNCHANGED <<isListening, screenVars, isMobile, isPressingRef,
                 longPressTimerRef, pressTimers, buttonFrame>>

\* useIsMobile reports another kind of device.
IsMobileChanges ==
  /\ isMobile' = ~isMobile
  /\ buttonCalls' = <<>>
  /\ UNCHANGED <<isListening, isPlaying, screenVars, isPressingRef,
                 longPressTimerRef, pressTimers, buttonFrame>>

\* handleActionButtonClick: while listening it stops the engine and sends a
\* valid transcript; otherwise it starts the engine.
HandleActionButtonClick(valid) ==
  IF isListening /\ valid
    THEN /\ turns < MaxTurns
         /\ isLoading' = TRUE
         /\ inFlight' = Append(inFlight, patienceScore)
         /\ turns' = turns + 1
         /\ UNCHANGED <<patienceScore, gameStatus, vadEnabled, hasStarted,
                        gameStatusSeen, lastOutcome>>
    ELSE UNCHANGED screenVars

\* handleClick, with onClick = handleActionButtonClick
Click(valid) ==
  /\ IF isDisabled \/ isMobile
       THEN /\ buttonCalls' = <<>>
            /\ UNCHANGED screenVars
       ELSE /\ buttonCalls' = <<"onClick">>
            /\ HandleActionButtonClick(valid)
  /\ UNCHANGED <<isListening, isPlaying, isMobile, isPressingRef,
                 longPressTimerRef, pressTimers>>
  /\ UNCHANGED <<sourceNodeRef, audioRef, sources, endedCalls, called,
                 isSupported, enabledRef, transcript, isSpeaking, error,
                 finalTranscriptRef, interimTranscriptRef, lastSpeechTimeRef,
                 isSpeakingRef, hasSpokenRef, streamRef, audioContextRef,
                 analyserRef, checkIntervalRef, envVars, obsVars,
                 recognitionVars, validationVars, historyVars>>

\* The setTimeout calls of handlePressStart so far.
Presses == {k \in 1..MaxPresses : pressTimers[k] # "none"}

\* handlePressStart
PressStart ==
  /\ Cardinality(Presses) < MaxPresses
  /\ IF isDisabled \/ ~isMobile
       THEN UNCHANGED <<isPressingRef, longPressTimerRef, pressTimers>>
       ELSE /\ isPressingRef' = TRUE
            /\ longPressTimerRef' = Cardinality(Presses) + 1
            /\ pressTimers' = [pressTimers EXCEPT ![Cardinality(Presses) + 1] = "pending"]
  /\ buttonCalls' = <<>>
  /\ UNCHANGED <<isListening, isPlaying, screenVars, isMobile, buttonFrame>>

\* A timer that was set and has neither run nor been cleared: "pending"
\* while its press is held, "released" once that press has ended.
Live == {"pending", "released"}

\* clearTimeout(id)
Cleared(id) ==
  IF id # NoId /\ pressTimers[id] \in Live
    THEN [pressTimers EXCEPT ![id] = "cleared"]
    ELSE pressTimers

\* The release of a press leaves its timer alone: the latest press still
\* held is over.
Held == {k \in 1..MaxPresses : pressTimers[k] = "pending"}
Let_Go ==
  IF Held = {} THEN pressTimers
  ELSE [pressTimers EXCEPT ![CHOOSE k \in Held : \A j \in Held : j <= k] = "released"]

\* handlePressEnd
PressEnd ==
  /\ IF ~isMobile
       THEN /\ buttonCalls' = <<>>
            /\ pressTimers' = Let_Go
            /\ UNCHANGED <<isPressingRef, longPressTimerRef>>
       ELSE /\ isPressingRef' = FALSE
            /\ pressTimers' = IF longPressTimerRef # NoId
                                THEN Cleared(longPressTimerRef) ELSE Let_Go
            /\ longPressTimerRef' = NoId
            /\ buttonCalls' = IF isRecording THEN <<"onRecordStop">> ELSE <<>>
  /\ UNCHANGED <<isListening, isPlaying, screenVars, isMobile, buttonFrame>>

\* The callback of the setTimeout of handlePressStart runs.
LongPressTimeout(k) ==
  /\ pressTimers[k] \in Live
  /\ pressTimers' = [pressTimers EXCEPT ![k] = "fired"]
  /\ buttonCalls' = IF isPressingRef THEN <<"onRecordStart">> ELSE <<>>
  /\ UNCHANGED <<isListening, isPlaying, screenVars, isMobile, isPressingRef,
                 longPressTimerRef, buttonFrame>>

\* sendMessage after await fetch, response ok: the score is set, then the
\* win/loss effect runs; playAudio is the player's business.
ClickResponds(score, deal) ==
  /\ inFlight # <<>>
  /\ inFlight' = Tail(inFlight)
  /\ patienceScore' = score
  /\ gameStatus' = WinLoss(DealClosed(gameStatus, deal), score)
  /\ lastOutcome' = IF deal THEN "closed" ELSE "open"
  /\ isLoading' = LoadingAfterSettle
  /\ buttonCalls' = <<>>
  /\ UNCHANGED <<isListening, isPlaying, turns, isMobile, isPressingRef,
                 longPressTimerRef, pressTimers, buttonFrame>>

\* sendMessage: catch and finally
ClickFails(kind) ==
  /\ inFlight # <<>>
  /\ inFlight' = Tail(inFlight)
  /\ lastOutcome' = kind
  /\ isLoading' = LoadingAfterSettle
  /\ buttonCalls' = <<>>
  /\ UNCHANGED <<patienceScore, gameStatus, isListening, isPlaying, turns,
                 isMobile, isPressingRef, longPressTimerRef, pressTimers,
                 buttonFrame>>

NextButton ==
  \/ ListeningChanges
  \/ PlayingChanges
  \/ IsMobileChanges
  \/ \E valid \in BOOLEAN : Click(valid)
  \/ PressStart
  \/ PressEnd
  \/ \E k \in 1..MaxPresses : LongPressTimeout(k)
  \/ \E score \in Scores, deal \in BOOLEAN : ClickResponds(score, deal)
  \/ \E kind \in Failures : ClickFails(kind)

SpecButton == InitButton /\ [][NextButton]_vars

\* ================================================================ claims

\* C1 (as stated): whenever the loudness crossed the threshold and then stayed
\* below it until the silence window closed, onSpeechEnd was invoked exactly
\* once, with the trimmed accumulator text of that moment.
C1_ExactlyOneEvent ==
  phase = "closed" => uttEvents = <<textAtClose>>

\* C1 (amended): when the silence window closes, onSpeechEnd has been invoked
\* exactly once with the trimmed accumulator text if that text is not empty,
\* and not at all if it is empty.
C1_OneEventIfText ==
  phase = "closed" =>
    uttEvents = IF textAtClose # <<>> THEN <<textAtClose>> ELSE <<>>

\* An utterance closed whose event carried a finalized segment followed by
\* the latest interim text.
C1_Witness ==
  /\ phase = "closed"
  /\ Len(textAtClose) = 3
  /\ uttEvents = <<textAtClose>>

\* C2: onSpeechEnd is invoked only if some sampled level exceeded
\* speechThreshold since start-listening, the last finalized event or the
\* last suppression.
C2_NoEventWithoutCrossing ==
  [][EndFired(events') => crossed]_vars

\* C3: no step taken while VAD is disabled invokes onSpeechEnd or
\* onSpeechStart.
C3_NoEventWhileSuppressed ==
  [][~enabledRef => events' = NoEvents]_vars

\* A tick ran while suppressed after speech had been detected: it reset the
\* last-speech timestamp that the loud sample had set.
C3_Witness ==
  /\ ~enabledRef
  /\ analyserRef # NoId
  /\ lastLoud > 0
  /\ lastSpeechTimeRef = 0

\* C4: in every reachable state, suppressed implies that the Speech-Activity
\* State is idle and the has-spoken flag is cleared.
C4_SuppressedIsIdle ==
  ~enabledRef => (~isSpeaking /\ ~isSpeakingRef /\ ~hasSpokenRef)

\* C5: when suppression is lifted, the Transcript Accumulator is empty.
C5_AccumulatorEmptyWhenLifted ==
  [][(~enabledRef /\ enabledRef') =>
       (finalTranscriptRef' = <<>> /\ interimTranscriptRef' = <<>>)]_vars

\* C6: no onSpeechEnd argument contains text that was in the accumulator when
\* suppression was set.
C6_DiscardedNeverEmitted ==
  \A i \in 1..Len(events) :
    events[i].type = "end" => Words(events[i].text) \cap discarded = {}

\* C7: the first loud sample after a finalization starts an utterance whose
\* finalized-text is empty.
C7_FreshUtteranceAfterFinalization ==
  [][(phase = "closed" /\ phase' = "loud") => finalTranscriptRef' = <<>>]_vars

\* A step that is a tick processing a sample above the threshold.
LoudTick == now' # now /\ phase' = "loud" /\ lastLoud' = now'

\* C8: onSpeechStart is invoked by the first loud sample of every utterance
\* (never again within it, and also in the utterance that follows a
\* finalization) and by no other step.
C8_SpeechStartOncePerUtterance ==
  [][/\ LoudTick => (StartFired(events') <=> phase # "loud")
     /\ ~LoudTick => ~StartFired(events')]_vars

\* C9: when the silence window closes on an accumulator that is empty after
\* trimming, onSpeechEnd is not invoked, the state is idle, the has-spoken
\* flag is cleared and the accumulator is empty.
C9_EmptyUtteranceResets ==
  [][(phase = "loud" /\ phase' = "closed" /\ textAtClose' = <<>>) =>
       /\ events' = NoEvents
       /\ ~isSpeaking' /\ ~isSpeakingRef' /\ ~hasSpokenRef'
       /\ finalTranscriptRef' = <<>> /\ interimTranscriptRef' = <<>>]_vars

\* No capture track, audio context or sampling interval was released twice.
ReleasedAtMostOnce ==
  \A i \in Handles :
    trackStops[i] <= 1 /\ contextCloses[i] <= 1 /\ intervalClears[i] <= 1

\* C10: a stopListening call that follows another one changes nothing (the
\* state is that of a single call), and no track, audio context or interval
\* is ever released twice.
C10_StopIdempotent ==
  /\ []ReleasedAtMostOnce
  /\ [][(stopsInRow >= 1 /\ stopsInRow' = 2) => UNCHANGED <<progVars, envVars>>]_vars

\* stopListening was called twice in succession on an open session.
C10_Witness ==
  /\ stopsInRow = 2
  /\ sessions >= 1
  /\ trackStops[1] = 1 /\ contextCloses[1] = 1 /\ intervalClears[1] = 1

\* The capture streams whose tracks were not stopped, and the audio contexts
\* (each with its analyser) that were not closed.
LiveStreams == {i \in 1..sessions : trackStops[i] = 0}
LiveContexts == {i \in 1..sessions : contextCloses[i] = 0}

\* C11: from a stopListening call until the next startListening call the
\* Microphone Session is torn down (no capture stream, no analyser, no running
\* sampling interval) and no step invokes onSpeechStart or onSpeechEnd,
\* whatever the state stopListening was called in, a startListening still
\* awaiting the microphone included.
C11_TornDownUntilStart ==
  stopped =>
    /\ LiveStreams = {} /\ streamRef = NoId
    /\ LiveContexts = {} /\ analyserRef = NoId
    /\ liveIntervals = {}
    /\ events = NoEvents

\* C12: there is never more than one live capture stream, one analyser and
\* one running sampling interval, also when startListening is called again
\* before the first call's microphone acquisition resolved.
C12_OneSession ==
  /\ Cardinality(LiveStreams) <= 1
  /\ Cardinality(LiveContexts) <= 1
  /\ Cardinality(liveIntervals) <= 1

\* A step in which the engine reports an error of an ignored kind.
IgnoredErrorStep ==
  engineError = "none" /\ engineError' \in {"no-speech", "aborted"}

\* C13: the error handler leaves the error value, the listening flag, the
\* listening intent and the Transcript Accumulator unchanged when the error
\* is "no-speech" or "aborted".
C13_IgnoredErrorChangesNothing ==
  [][IgnoredErrorStep =>
       UNCHANGED <<error, isListening, shouldBeListeningRef, finalTranscriptRef,
                   interimTranscriptRef, transcript>>]_vars

\* The engine has reported "no-speech" while the hook was listening, with the
\* intent set and finalized text in the accumulator.
C13_Witness ==
  /\ engineError = "no-speech"
  /\ isListening
  /\ shouldBeListeningRef
  /\ error = "none"
  /\ finalTranscriptRef # <<>>

\* A step in which the engine reports an error of any other kind.
FatalErrorStep ==
  engineError = "none" /\ engineError' \notin {"none", "no-speech", "aborted"}

\* C14: an error of any other kind is surfaced (error is set), the listening
\* flag becomes false, no restart is pending, and the Microphone Session is
\* closed with its sampling stopped.
C14_FatalErrorEndsSession ==
  [][FatalErrorStep =>
       /\ error' # "none"
       /\ ~isListening'
       /\ restartTimers' = <<>>
       /\ liveIntervals' = {} /\ LiveStreams' = {}]_vars

\* C15: an engine end with the intent set schedules a restart restartDelay
\* later and keeps the finalized text; the timer's callback runs only when
\* that time has passed, and with the intent still set it calls start() and
\* keeps the finalized text; and while a restart is pending and the intent
\* stays set, the callback eventually runs.
C15_RestartAfterBackoff ==
  /\ [][/\ (recState # "off" /\ recState' = "off" /\ shouldBeListeningRef) =>
             /\ restartTimers' = Append(restartTimers, restartDelay)
             /\ UNCHANGED finalTranscriptRef
        /\ Len(restartTimers') < Len(restartTimers) =>
             /\ Head(restartTimers) = 0
             /\ shouldBeListeningRef => events' = <<RestartCall>>
             /\ UNCHANGED finalTranscriptRef]_vars
  /\ (restartTimers # <<>> /\ shouldBeListeningRef)
       ~> (events = <<RestartCall>> \/ ~shouldBeListeningRef)

\* The timer restarted the engine with finalized text in the accumulator.
C15_Witness ==
  /\ events = <<RestartCall>>
  /\ recState = "starting"
  /\ shouldBeListeningRef
  /\ finalTranscriptRef # <<>>

\* C16: a restart timer that was pending when stop() was called or the
\* component unmounted does not call recognition.start() when it expires.
C16_NoRestartAfterStop ==
  [][(Len(restartTimers') < Len(restartTimers) /\ stoppedSince > 0) =>
       events' # <<RestartCall>>]_vars

\* C17: when the engine ends after a "no-speech" error while the hook is
\* listening and enabled, the Microphone Session stays open, no error is
\* surfaced and a restart is scheduled restartDelay later.
C17_RestartAfterNoSpeech ==
  [][(engineError = "no-speech" /\ engineError' = "none"
        /\ isListening /\ enabledRef) =>
       /\ streamRef' # NoId /\ liveIntervals' # {}
       /\ error' = error
       /\ restartTimers' = Append(restartTimers, restartDelay)]_vars

\* The play() calls whose payload has ended, failed or could not be started.
Settled == {i \in 1..MaxPlays : sources[i] \in {"ended", "failed", "unstarted", "done"}}

\* C18: onEnded is invoked exactly once for every play() call: never twice,
\* and once when the playback has ended or has failed to decode or to start.
C18_CompletionExactlyOnce ==
  /\ \A i \in 1..MaxPlays : endedCalls[i] <= 1
  /\ \A i \in Settled : endedCalls[i] = 1

\* C19: at most one source is started and not ended, also when play() is
\* called again while the first payload is still being decoded.
C19_OnePayloadPlays == Cardinality(Playing) <= 1

\* C20: a stop() call made while a payload plays halts playback (isPlaying
\* false, no current source, nothing playing); made while nothing plays it
\* changes nothing; it invokes no onEnded, and no play() call is ever
\* notified twice.
C20_StopHalts ==
  /\ [](\A i \in 1..MaxPlays : endedCalls[i] <= 1)
  /\ [][called' = "stop" =>
          /\ Playing # {} =>
               (~isPlaying' /\ sourceNodeRef' = NoId /\ Playing' = {})
          /\ Playing = {} => UNCHANGED <<isPlaying, sources>>
          /\ UNCHANGED endedCalls]_vars

\* C21: every turn re-arms the state machine: once a finalized transcript
\* was handed to sendMessage and the chat call has settled, with the game
\* still in status playing, the enabled input of the hook becomes true again
\* (and reaches enabledRef), whether the response had audio whose playback
\* ends, audio that fails to decode or to start, no audio, or the call failed.
C21_TurnRearms ==
  (turns > 0 /\ inFlight = <<>> /\ gameStatus = "playing")
    ~> (Enabled /\ enabledRef)

\* The hook is enabled again after a turn whose audio failed to decode.
C21_Witness ==
  /\ Enabled /\ enabledRef
  /\ turns > 0
  /\ \E i \in 1..MaxPlays : sources[i] = "failed" /\ endedCalls[i] = 1

\* A step in which a chat call fails.
ChatFailure == Len(inFlight') < Len(inFlight) /\ lastOutcome' \in Failures

\* C22: a failed chat call leaves the patience score as it was when the call
\* was made and the game status unchanged, and lifts the suppression (the
\* enabled input is true after it).
C22_FailurePreservesPatience ==
  [][ChatFailure =>
       /\ patienceScore' = Head(inFlight)
       /\ patienceScore' = patienceScore
       /\ gameStatus' = gameStatus
       /\ Enabled']_vars

\* A chat call failed after an earlier response had changed the score, and
\* the hook is enabled again.
C22_Witness ==
  /\ lastOutcome \in Failures
  /\ patienceScore # initialPatience
  /\ enabledRef
  /\ inFlight = <<>>

\* The play() calls whose audio is being decoded or played.
InAudio == {i \in 1..MaxPlays : sources[i] \in {"decoding", "playing"}}

\* C23: while a chat call is in flight (isLoading) or reply audio is being
\* decoded or played (isPlaying included), the enabled input is false; at
\* most one chat call is in flight; and a chat call is started only when none
\* is in flight and no reply audio is being decoded or played.
C23_DisabledDuringTurn ==
  /\ []((isLoading \/ isPlaying \/ inFlight # <<>> \/ InAudio # {}) => ~Enabled)
  /\ []((EffectsDone /\ (isLoading \/ isPlaying)) => ~enabledRef)
  /\ [](Len(inFlight) <= 1)
  /\ [][turns' > turns =>
          (inFlight = <<>> /\ InAudio = {} /\ ~isLoading /\ ~isPlaying)]_vars

\* Reply audio plays after a turn, with the hook disabled.
C23_Witness ==
  /\ isPlaying
  /\ InAudio # {}
  /\ ~isLoading
  /\ turns > 0
  /\ EffectsDone /\ ~enabledRef

\* C24 (as stated): whenever the patience score is 0 the game status is lost,
\* whenever it is 100 the status is won, and whenever the last response had
\* deal_closed the status is won.
C24_EndsAsStated ==
  /\ patienceScore <= 0 => gameStatus = "lost"
  /\ patienceScore >= 100 => gameStatus = "won"
  /\ lastOutcome = "closed" => gameStatus = "won"

\* C24 (amended): whenever the last response had deal_closed the game status
\* is won; otherwise it is lost whenever the patience score is 0 and won
\* whenever the score is 100.
C24_EndsUnlessDealClosed ==
  /\ lastOutcome = "closed" => gameStatus = "won"
  /\ (patienceScore <= 0 /\ lastOutcome # "closed") => gameStatus = "lost"
  /\ patienceScore >= 100 => gameStatus = "won"

\* A response without deal_closed brought the score to 0: the game is lost
\* and listening has stopped.
C24_Witness ==
  /\ patienceScore = 0
  /\ lastOutcome = "open"
  /\ gameStatus = "lost"
  /\ gameStatusSeen = "lost"
  /\ ~isListening

\* The transcript is a string with at least one character that is not white
\* space.
HasContent(t) ==
  /\ t.kind = "string"
  /\ \E i \in 1..Len(t.text) : t.text[i] \notin Whitespace

\* C25: shouldTriggerApiCall(t) equals isValidTranscript(t), and both are
\* true exactly when t is a string with at least one non-whitespace
\* character: null, undefined, the empty string and strings of white space
\* only are rejected.
C25_ValidIffContent ==
  verdict # <<>> =>
    /\ verdict[2] = verdict[1]
    /\ verdict[1] = HasContent(checked)

\* A string of two different white-space characters was rejected by both
\* functions.
C25_Witness ==
  /\ checked = Str(<<Space, Tab>>)
  /\ verdict = <<FALSE, FALSE>>

\* C26 (as stated): in a step taken while the ActionButton is in the disabled
\* state, none of onClick, onRecordStart and onRecordStop is invoked, be the
\* step a click, a press, a release or the expiry of a long-press timer that
\* was started before the button became disabled.
C26_DisabledInvokesNothing ==
  [][isDisabled => buttonCalls' = <<>>]_vars

\* C27: in the click-to-talk screen the button state is disabled whenever
\* audio is playing, a chat request is loading or the game status is not
\* playing; otherwise it is recording when listening and idle when not.
C27_ButtonStateDerivation ==
  /\ (isPlaying \/ isLoading \/ gameStatus # "playing") => ButtonState = "disabled"
  /\ ButtonState = "recording" => isListening
  /\ (~isPlaying /\ ~isLoading /\ gameStatus = "playing") =>
       ButtonState = IF isListening THEN "recording" ELSE "idle"

\* A click while listening sent the transcript: the request is loading while
\* the engine still listens, and the button is disabled.
C27_Witness ==
  /\ isListening
  /\ isLoading
  /\ inFlight # <<>>
  /\ ButtonState = "disabled"

\* C28: silence is timed from the last sample above speechThreshold.  A tick
\* that processes such a sample stores its time in lastSpeechTimeRef;
\* onSpeechEnd is invoked only by a tick taken silenceThreshold or more after
\* that sample, the ticks before it having come earlier than that; the first
\* tick that finds the silence that long ends the speaking state and, when
\* the trimmed text is not empty, invokes onSpeechEnd with it; and an
\* utterance closed on a text has had exactly one event, as in scenario A.
C28_SilenceFromLastLoudTick ==
  /\ [][/\ LoudTick => lastSpeechTimeRef' = now'
        /\ EndFired(events') =>
             /\ now' # now
             /\ now' - lastLoud >= silenceThreshold
             /\ now - lastLoud < silenceThreshold
        /\ (phase = "loud" /\ phase' = "closed") =>
             /\ now' - lastLoud >= silenceThreshold
             /\ ~isSpeakingRef'
             /\ textAtClose' # <<>> => events' = <<SpeechEnd(textAtClose')>>]_vars
  /\ [](isSpeakingRef => lastSpeechTimeRef = lastLoud)
  /\ []((phase = "closed" /\ textAtClose # <<>>) => uttEvents = <<textAtClose>>)

\* Scenario A at the bounds: two finalized segments were delivered, a loud
\* sample was followed by silence, and the tick that found the silence
\* exactly silenceThreshold long has just invoked onSpeechEnd with the text.
C28_Witness ==
  /\ phase = "closed"
  /\ now - lastLoud = silenceThreshold
  /\ textAtClose = <<1, Space, 2>>
  /\ events = <<SpeechEnd(<<1, Space, 2>>)>>
  /\ uttEvents = <<textAtClose>>

\* The Speech-Activity State (isSpeaking, isSpeakingRef) becomes speaking.
BecomesSpeaking ==
  \/ ~isSpeaking /\ isSpeaking'
  \/ ~isSpeakingRef /\ isSpeakingRef'

\* The Speech-Activity State returns to idle.
BecomesIdle ==
  \/ isSpeaking /\ ~isSpeaking'
  \/ isSpeakingRef /\ ~isSpeakingRef'

\* C29: the Speech-Activity State becomes speaking only in a tick that
\* processes, while enabled, a sample strictly above speechThreshold; it
\* returns to idle only in a tick taken, with has-spoken set, silenceThreshold
\* or more after the last such sample, in a step taken while VAD is disabled,
\* or in a stopListening or startListening call.
C29_SpeakingChangesAsAllowed ==
  [][/\ BecomesSpeaking => (LoudTick /\ enabledRef)
     /\ BecomesIdle =>
          \/ /\ now' # now
             /\ enabledRef
             /\ hasSpokenRef
             /\ now' - lastLoud >= silenceThreshold
          \/ ~enabledRef
          \/ stopsInRow' > 0
          \/ pendingStarts' > pendingStarts]_vars

\* The state returned to idle by silence alone: the window closed on an empty
\* text while VAD was enabled, and has-spoken is still set.
C29_Witness ==
  /\ phase = "closed"
  /\ textAtClose = <<>>
  /\ enabledRef
  /\ hasSpokenRef
  /\ ~isSpeaking /\ ~isSpeakingRef

\* The segments that are final in the results `new` and were not final in
\* `old`, in index order, each followed by a blank.
RECURSIVE NewlyFinal(_, _, _)
NewlyFinal(old, new, i) ==
  IF i > Len(new) THEN <<>>
  ELSE (IF new[i].final /\ (i > Len(old) \/ ~old[i].final)
          THEN Text(new[i]) \o <<Space>> ELSE <<>>)
       \o NewlyFinal(old, new, i + 1)

\* The text of the last result that is not final, empty when all are final.
LatestUnconfirmed(res) ==
  LET open == {i \in 1..Len(res) : ~res[i].final}
  IN IF open = {} THEN <<>>
     ELSE Text(res[CHOOSE i \in open : \A j \in open : j <= i])

\* A step in which the recognition engine delivers changed results.
ResultsUpdate == results' # results /\ results' # <<>>

\* C30: a transcript update extends finalTranscriptRef by exactly the newly
\* finalized segments, in delivery order, and stores the latest unconfirmed
\* segment alone in interimTranscriptRef; any other step leaves
\* finalTranscriptRef as it is or empties it, and no step makes
\* interimTranscriptRef anything but empty or that one segment; no finalized
\* segment is in finalTranscriptRef twice.
C30_FinalAppendOnlyInterimReplaced ==
  /\ [][/\ ResultsUpdate =>
             /\ finalTranscriptRef' = finalTranscriptRef \o NewlyFinal(results, results', 1)
             /\ interimTranscriptRef' = LatestUnconfirmed(results')
        /\ (~ResultsUpdate /\ finalTranscriptRef' # finalTranscriptRef) =>
             finalTranscriptRef' = <<>>
        /\ interimTranscriptRef' # interimTranscriptRef =>
             interimTranscriptRef' \in {<<>>, LatestUnconfirmed(results')}]_vars
  /\ [](\A i, j \in 1..Len(finalTranscriptRef) :
          (i # j /\ finalTranscriptRef[i] = finalTranscriptRef[j]) =>
             finalTranscriptRef[i] = Space)

\* The first segment was finalized and appended; the second one is the
\* interim text.
C30_Witness ==
  /\ Len(results) = 2
  /\ results[1].final /\ ~results[2].final
  /\ finalTranscriptRef = <<1, Space>>
  /\ interimTranscriptRef = <<2>>

\* A transcript update that appends a segment to finalTranscriptRef.
AppendsFinal == ResultsUpdate /\ NewlyFinal(results, results', 1) # <<>>

\* No segment is in the accumulator both as finalized and as interim text.
NoSegmentTwice == Words(finalTranscriptRef) \cap Words(interimTranscriptRef) = {}

\* C31 (as stated): after a transcript update that appends a segment to
\* finalTranscriptRef, interimTranscriptRef is empty; and no segment is in the
\* accumulator both as finalized and as interim text.
C31_InterimEmptyAfterAppend ==
  /\ [][AppendsFinal => interimTranscriptRef' = <<>>]_vars
  /\ []NoSegmentTwice

\* C31 (amended): after a transcript update that appends a segment to
\* finalTranscriptRef, interimTranscriptRef is empty or holds the latest
\* unconfirmed segment, which is none of the finalized ones; and no segment is
\* ever in the accumulator both as finalized and as interim text.
C31_InterimNeverFinalized ==
  /\ [][AppendsFinal =>
          /\ interimTranscriptRef' \in {<<>>, LatestUnconfirmed(results')}
          /\ Words(interimTranscriptRef') \cap Words(finalTranscriptRef') = {}]_vars
  /\ []NoSegmentTwice

\* One update finalized the first segment and delivered the second as
\* interim text: the transcript reads both, each once.
C31_Witness ==
  /\ Words(finalTranscriptRef) = {1}
  /\ Words(interimTranscriptRef) = {2}
  /\ transcript = <<1, Space, 2>>
  /\ nextResult = 3

\* ------------------------------------------------ what onSpeechEnd carried
\* SpecEmitted follows the hook over two utterances of one listening
\* session and records, in `emitted`, the result numbers whose text an
\* earlier onSpeechEnd call carried.
EmitTime == MaxTime + (SilenceTicks + 1) * checkInterval

EndWords(evs) ==
  UNION {Words(evs[i].text) : i \in {j \in 1..Len(evs) : evs[j].type = "end"}}

EmitTick(level, dt) ==
  /\ TickWithin(level, dt, EmitTime)
  /\ emitted' = emitted \cup EndWords(events')
  /\ UNCHANGED <<screenVars, validationVars, buttonVars, earlier>>

InitEmitted == Init /\ isSupported /\ enabledRef

NextEmitted ==
  \/ StartListening
  \/ GetUserMediaResolve
  \/ GetUserMediaReject
  \/ \E level \in Levels, dt \in TickDelays : EmitTick(level, dt)
  \/ \E ev \in FeedEvents : OnResult(ev)
  \/ OnEnd
  \/ StopListening

SpecEmitted == InitEmitted /\ [][NextEmitted]_vars

\* C32: every segment the feed delivers is carried by at most one
\* onSpeechEnd call: no call carries a segment that an earlier call of the
\* behaviour carried.
C32_SegmentEmittedOnce ==
  [][EndWords(events') \cap emitted = {}]_vars

\* ------------------------------------------- text of a stopped session
\* SpecSessions follows the hook over two listening sessions, the second
\* requested after the first was stopped, and records, in `earlier`, the
\* result numbers of the text that belongs to a stopped session: those
\* delivered before stopListening and those delivered while no session is
\* open.
ResultIds(res) == {res[i].id : i \in {j \in 1..Len(res) : ~res[j].blank}}

SessionStart ==
  /\ pendingStarts = 0
  /\ StartRequest(MaxSessions + 1)
  /\ UNCHANGED appVars

SessionStop ==
  /\ StopListeningBody
  /\ earlier' = earlier \cup ResultIds(results)
  /\ UNCHANGED <<screenVars, validationVars, buttonVars, emitted>>

SessionResult(ev) ==
  /\ OnResultBody(ev)
  /\ earlier' = IF isListening THEN earlier ELSE earlier \cup ResultIds(ev[1])
  /\ UNCHANGED <<screenVars, validationVars, buttonVars, emitted>>

InitSessions == Init /\ enabledRef

NextSessions ==
  \/ SessionStart
  \/ GetUserMediaResolve
  \/ GetUserMediaReject
  \/ \E level \in Levels, dt \in TickDelays : Tick(level, dt)
  \/ \E ev \in FeedEvents : SessionResult(ev)
  \/ OnEnd
  \/ SessionStop

SpecSessions == InitSessions /\ [][NextSessions]_vars

\* C33: no onSpeechEnd call carries text of a listening session that was
\* stopped before the call, whether that text was delivered before the stop
\* or while no session was open.
C33_NoTextAcrossSessions ==
  [][EndWords(events') \cap earlier = {}]_vars

\* A step in which a pending getUserMedia request is rejected.
MicrophoneFails == pendingStarts' = pendingStarts - 1 /\ sessions' = sessions

\* C34: when getUserMedia rejects, the error is set and afterwards the hook
\* is not listening, the recognition engine is not running, and no sampling
\* interval, capture stream or analyser exists.
C34_FailureLeavesIdle ==
  [][MicrophoneFails =>
       /\ error' = "microphone"
       /\ ~isListening'
       /\ recState' # "on"
       /\ liveIntervals' = {}
       /\ streamRef' = NoId
       /\ analyserRef' = NoId]_vars

\* C36: once the game is won or lost the status never changes again, the
\* enabled input of the voice-activity hook is false, and no further chat
\* request is sent, also after handleAudioEnded has set vadEnabled.
C36_StatusAbsorbing ==
  /\ [][gameStatus # "playing" =>
          /\ gameStatus' = gameStatus
          /\ turns' = turns
          /\ Len(inFlight') <= Len(inFlight)]_vars
  /\ [](gameStatus # "playing" => ~Enabled)

\* The game is lost, the effect on the status has stopped the hook, and the
\* reply audio that ended afterwards has set vadEnabled again.
C36_Witness ==
  /\ gameStatus = "lost"
  /\ gameStatusSeen = "lost"
  /\ vadEnabled
  /\ ~isPlaying
  /\ ~isLoading
  /\ \E id \in 1..MaxPlays : endedCalls[id] > 0

\* A step in which startListening, called from Idle, registers its
\* getUserMedia request.
StartFromIdle == pendingStarts' = pendingStarts + 1

\* The accumulator is emptied by the step.
AccumulatorCleared ==
  /\ finalTranscriptRef \o interimTranscriptRef # <<>>
  /\ finalTranscriptRef' \o interimTranscriptRef' = <<>>

\* C37: from Idle startListening resets the accumulator, the has-spoken
\* flag and the speech-activity state before the session opens; while a
\* session is open, or without speech recognition, no call registers a
\* request or opens a session, and only a sampling tick empties the
\* accumulator.
C37_FreshUtteranceOrNoOp ==
  /\ [][StartFromIdle =>
          /\ isSupported /\ ~isListening
          /\ finalTranscriptRef' = <<>>
          /\ interimTranscriptRef' = <<>>
          /\ transcript' = <<>>
          /\ ~hasSpokenRef'
          /\ ~isSpeakingRef'
          /\ ~isSpeaking'
          /\ ~isListening'
          /\ sessions' = sessions]_vars
  /\ [][StartReturnsEarly =>
          /\ pendingStarts' <= pendingStarts
          /\ (pendingStarts = 0 => sessions' = sessions)
          /\ (AccumulatorCleared => now' # now)]_vars

\* The second startListening of a behaviour has emptied an accumulator that
\* held the confirmed result 1 of the stopped session: no tick has run, and
\* the engine has not ended.
C37_Witness ==
  /\ sessions = 1
  /\ pendingStarts = 1
  /\ now = MountTime
  /\ recState = "stopping"
  /\ Len(results) = 1
  /\ results[1].final /\ ~results[1].blank
  /\ finalTranscriptRef = <<>>
  /\ transcript = <<>>

\* C38: onRecordStart is invoked only when a long-press timer expires whose
\* press is still held, and onRecordStop only by a release while the button
\* state is recording.
C38_StartOnlyWhileHeld ==
  /\ [][(\E i \in 1..Len(buttonCalls') : buttonCalls'[i] = "onRecordStart") =>
          /\ isPressingRef
          /\ \E k \in 1..MaxPresses :
               pressTimers[k] = "pending" /\ pressTimers'[k] = "fired"]_vars
  /\ [][(\E i \in 1..Len(buttonCalls') : buttonCalls'[i] = "onRecordStop") =>
          isRecording /\ ~isPressingRef']_vars

\* ------------------------------------------- useAudioPlayer, torn down
\* SpecTeardown is the Web Audio player with the cleanup that runs when the
\* component unmounts.  play() and stop() are closures a caller may hold
\* after the unmount (sendMessage calls playAudio after its await), so they
\* stay callable.  A closed context renders nothing: a source of it that was
\* playing is "silenced", a decode pending on it is "orphaned", and a source
\* started on it is "silent".
AfterClose(state) ==
  IF state = "playing" THEN "silenced"
  ELSE IF state = "decoding" THEN "orphaned"
  ELSE state

\* The cleanup of the effect with no dependencies.
PlayerUnmount ==
  /\ mounted
  /\ mounted' = FALSE
  /\ sources' = [i \in 1..MaxPlays |->
                   IF audioContextRef = NoId THEN StopsCurrent[i]
                   ELSE AfterClose(StopsCurrent[i])]
  /\ sourceNodeRef' = NoId
  /\ contextCloses' = Release(contextCloses, audioContextRef)
  /\ audioContextRef' = NoId
  /\ called' = "unmount"
  /\ UNCHANGED <<isPlaying, endedCalls, audioRef>>
  /\ UNCHANGED <<isSupported, enabledRef, transcript, isListening, isSpeaking,
                 error, finalTranscriptRef, interimTranscriptRef,
                 lastSpeechTimeRef, isSpeakingRef, hasSpokenRef, streamRef,
                 analyserRef, checkIntervalRef>>
  /\ UNCHANGED <<now, liveIntervals, pendingStarts, sessions, trackStops,
                 intervalClears, recState, results, nextResult, engineError,
                 restartTimers>>
  /\ UNCHANGED <<obsVars, shouldBeListeningRef, stoppedSince, appVars>>

\* What a decode pending on a closed context comes to: it rejects or
\* createBufferSource throws ("failed"), start throws ("unstarted"), or the
\* source starts on the closed context ("silent").
Outcomes == {"failed", "unstarted", "silent"}

\* play() goes on after its await on a context the cleanup has closed.
OrphanSettles(id, outcome) ==
  /\ sources[id] = "orphaned"
  /\ sources' = [sources EXCEPT ![id] = outcome]
  /\ sourceNodeRef' = IF outcome = "failed" THEN sourceNodeRef ELSE id
  /\ isPlaying' = (outcome = "silent")
  /\ endedCalls' = IF outcome = "silent" THEN endedCalls ELSE Notified(id)
  /\ called' = "none"
  /\ UNCHANGED <<audioContextRef, audioRef, notPlayer, appVars>>

NextTeardown ==
  \/ \E payload \in Payloads : Play(payload)
  \/ \E id \in 1..MaxPlays, starts \in BOOLEAN : Decoded(id, starts)
  \/ \E id \in 1..MaxPlays : DecodeFailed(id)
  \/ \E id \in 1..MaxPlays : SourceEnded(id)
  \/ PlayerStop
  \/ PlayerUnmount
  \/ \E id \in 1..MaxPlays, outcome \in Outcomes : OrphanSettles(id, outcome)

SpecTeardown == InitPlayer /\ [][NextTeardown]_vars

\* The contexts that were created and not closed.
OpenContexts == {h \in Handles : h = audioContextRef /\ contextCloses[h] = 0}

\* C35: no context exists before the first play(), at most one context is
\* open at any time, and once the component is unmounted no context is open
\* and no source plays.
C35_OneContextClosedAtTeardown ==
  /\ Calls = {} => OpenContexts = {}
  /\ Cardinality(OpenContexts) <= 1
  /\ ~mounted => /\ OpenContexts = {}
                 /\ \A id \in 1..MaxPlays : sources[id] # "playing"

====
